---- MODULE Spec2Model ----
(***************************************************************************)
(* zellij-pane-tracker: the plugin of src/src/lib.rs as a state machine.   *)
(*                                                                         *)
(* State is the plugin's State struct (pane_names, pane_commands,          *)
(* last_manifest).  One action per arm of ZellijPlugin::update.  The       *)
(* run_command calls an event makes are recorded, in order, in `issued`;   *)
(* `should_render` is update's return value and `event` the event that was *)
(* handled last.  `printed` is what render printed, when the host call     *)
(* handled last was render.                                                *)
(*                                                                         *)
(* `serde_fails` says whether serde_json::to_string_pretty returns Err and *)
(* `executor` is the host's side of run_command: the requests handed over  *)
(* and not yet run, and the file /tmp/zj-pane-names.json they write.  The  *)
(* plugin reads neither.                                                   *)
(*                                                                         *)
(* Strings the code takes apart or builds are sequences of one-character   *)
(* strings (a title, a sanitized name); format!("terminal_{}", id) is the  *)
(* pair <<"terminal_", id>>; a path built by format! is the tuple of its   *)
(* pieces; a shell command is a record of its parts.  Option<T> is a       *)
(* sequence of length at most one.                                         *)
(***************************************************************************)
EXTENDS Integers, Sequences, FiniteSets, TLC

VARIABLES pane_names, pane_commands, last_manifest, issued, should_render,
          event, received, san, printed, serde_fails, executor

vars == <<pane_names, pane_commands, last_manifest, issued, should_render,
          event, received, san, printed, serde_fails, executor>>

(***************************************************************************)
(* Bounds of the model.                                                    *)
(***************************************************************************)
\* tabs of a manifest are 0 .. MaxTabs-1
MaxTabs == 2
\* pane descriptors in one manifest, over all its tabs
MaxPanes == 2
\* length of the generated inputs of the name sanitizer
MaxLen == 3
\* clock readings are -1 .. MaxClock seconds relative to the Unix epoch
MaxClock == 0
\* manifest notifications handled while the executor is watched
MaxEvents == 2

(***************************************************************************)
(* Option<T>                                                               *)
(***************************************************************************)
None == <<>>
Some(x) == <<x>>

(***************************************************************************)
(* Characters and titles.                                                  *)
(***************************************************************************)
Str_empty == <<>>
Str_build == <<"b", "u", "i", "l", "d">>
Str_PaneHash1 == <<"P", "a", "n", "e", " ", "#", "1">>
Str_PaneDash3 == <<"P", "a", "n", "e", "-", "3">>
Str_MyPane1 == <<"M", "y", " ", "P", "a", "n", "e", "/", "1">>
Str_My_Pane_1 == <<"M", "y", "-", "P", "a", "n", "e", "-", "1">>
Str_PanePrefix == <<"P", "a", "n", "e", "-">>

\* char::is_alphanumeric on the characters of the model ("é" stands for the
\* alphabetic characters outside ASCII)
Alphanumeric ==
    {"a", "b", "d", "e", "i", "l", "n", "u", "y", "M", "P", "1", "3", "é"}

is_alphanumeric(c) == c \in Alphanumeric

(***************************************************************************)
(* Name sanitizer: the closure of auto_capture_panes that builds safe_name. *)
(***************************************************************************)
\* the closure without the ' ' pattern of its first arm
SanitizeChar_slash_only(c) ==
    IF c = "/" THEN "-"
    ELSE IF is_alphanumeric(c) \/ c = "-" \/ c = "_" THEN c
    ELSE "_"

SanitizeChar(c) ==
    IF c \in {" ", "/"} THEN "-"
    ELSE IF is_alphanumeric(c) \/ c = "-" \/ c = "_" THEN c
    ELSE "_"

\* name.chars().map(...).collect()
SafeName(name) == [i \in 1..Len(name) |-> SanitizeChar(name[i])]

\* str::starts_with
starts_with(s, prefix) ==
    /\ Len(s) >= Len(prefix)
    /\ SubSeq(s, 1, Len(prefix)) = prefix

(***************************************************************************)
(* The host's manifest.  A PaneInfo carries the fields the plugin reads.   *)
(* A PaneManifest value is a HashMap<usize, Vec<PaneInfo>>; the model      *)
(* keeps it as the sequence of its (tab, panes) entries in the order this  *)
(* HashMap value iterates them, which the hasher decides and which may     *)
(* differ between two maps of equal contents.                              *)
(***************************************************************************)
Geometry == [pane_columns |-> 80, pane_rows |-> 24, pane_x |-> 0, pane_y |-> 0]

Pane(id, is_plugin, title, terminal_command) ==
    [id |-> id, is_plugin |-> is_plugin, title |-> title,
     terminal_command |-> terminal_command, is_focused |-> (id = 7),
     is_floating |-> is_plugin, geometry |-> Geometry]

\* the descriptors manifests are made of: a named terminal pane running a
\* command, the same index with the host's default title, a terminal pane with
\* an empty title, a second title for it, and a plugin pane of the same index
\* and title as the named terminal pane
PaneInfos ==
    { Pane(7, FALSE, Str_build, Some("vim")),
      Pane(7, FALSE, Str_PaneHash1, None),
      Pane(1, FALSE, Str_empty, None),
      Pane(1, FALSE, Str_MyPane1, Some("htop")),
      Pane(7, TRUE, Str_build, Some("tracker")) }

TabIds == 0 .. (MaxTabs - 1)

PaneVecs == UNION {[1..k -> PaneInfos] : k \in 0..MaxPanes}

\* iteration orders: sequences of distinct tab indices
TabOrders ==
    {o \in UNION {[1..k -> TabIds] : k \in 0..MaxTabs} :
        \A i, j \in DOMAIN o : i # j => o[i] # o[j]}

RECURSIVE SumLen(_)
SumLen(vs) == IF vs = <<>> THEN 0 ELSE Len(Head(vs)) + SumLen(Tail(vs))

Manifests ==
    UNION {
        {[i \in DOMAIN o |-> [tab |-> o[i], panes |-> vs[i]]] :
            vs \in {w \in [DOMAIN o -> PaneVecs] : SumLen(w) <= MaxPanes}}
        : o \in TabOrders}

\* manifest.panes as a map: tab index -> Vec<PaneInfo>
PanesOf(manifest) ==
    [t \in {manifest[i].tab : i \in DOMAIN manifest} |->
        manifest[CHOOSE i \in DOMAIN manifest : manifest[i].tab = t].panes]

\* the descriptors in the order the two nested for loops visit them
RECURSIVE Descriptors(_)
Descriptors(manifest) ==
    IF manifest = <<>> THEN <<>>
    ELSE Head(manifest).panes \o Descriptors(Tail(manifest))

\* the identifier without the plugin/terminal distinction
PaneId_one_kind(pane_info) == <<"terminal_", pane_info.id>>

\* format!("plugin_{}", id) / format!("terminal_{}", id)
PaneId(pane_info) ==
    IF pane_info.is_plugin THEN <<"plugin_", pane_info.id>>
    ELSE <<"terminal_", pane_info.id>>

(***************************************************************************)
(* BTreeMap<String, String>                                                *)
(***************************************************************************)
EmptyMap == [k \in {} |-> <<>>]

\* insert that keeps the value a key already has
insert_if_absent(map, k, v) ==
    [x \in DOMAIN map \cup {k} |-> IF x \in DOMAIN map THEN map[x] ELSE v]

insert(map, k, v) ==
    [x \in DOMAIN map \cup {k} |-> IF x = k THEN v ELSE map[x]]

get(map, k) == IF k \in DOMAIN map THEN Some(map[k]) ELSE None

(***************************************************************************)
(* Shell commands handed to run_command(&["sh", "-c", cmd], ..).  A record *)
(* holds the parts of the command line: the program with its fixed         *)
(* arguments, the formatted arguments, `stdout` for "> path", `stderr` for *)
(* "2>path" and `or_true` for a trailing "|| true".  A part the command    *)
(* line does not have is no field of the record.                           *)
(***************************************************************************)
DumpPath(pane_num) == <<"/tmp/zj-pane-", pane_num, ".txt">>
NamedPath(safe_name) == <<"/tmp/zj-", safe_name, ".txt">>
NamesJsonPath == <<"/tmp/zj-pane-names.json">>
PanesInfoJsonPath == <<"/tmp/zj-panes-info.json">>

\* "zellij action dump-pane {} > /tmp/zj-pane-{}.txt 2>/dev/null || true"
dump_cmd(pane_num) ==
    [prog |-> "zellij action dump-pane", pane |-> pane_num,
     stdout |-> DumpPath(pane_num), stderr |-> "/dev/null", or_true |-> TRUE]

\* "ln -sf /tmp/zj-pane-{}.txt /tmp/zj-{}.txt 2>/dev/null || true"
symlink_cmd(pane_num, safe_name) ==
    [prog |-> "ln -sf", target |-> DumpPath(pane_num),
     link |-> NamedPath(safe_name), stderr |-> "/dev/null", or_true |-> TRUE]

\* "echo '{}' > /tmp/zj-panes-info.json"
meta_cmd(json) ==
    [prog |-> "echo", arg |-> json, stdout |-> PanesInfoJsonPath]

\* "echo '{}' > /tmp/zj-pane-names.json"
write_cmd(json) ==
    [prog |-> "echo", arg |-> json, stdout |-> NamesJsonPath]

\* serde_json::to_string_pretty: Ok(json) for the documents of this plugin
\* (string-keyed maps, strings, integers, booleans), so serde_fails is FALSE
\* wherever the encoder is not made to fail; the text is kept as the document
\* it encodes
to_string_pretty(doc) == [is_ok |-> ~serde_fails, json |-> doc]

(***************************************************************************)
(* State::update_pane_info: both maps are cleared, then every descriptor   *)
(* is inserted in iteration order.  Result: the new (names, commands).     *)
(***************************************************************************)
RECURSIVE InsertPanes(_, _, _)
InsertPanes(names, commands, panes) ==
    IF panes = <<>> THEN [pane_names |-> names, pane_commands |-> commands]
    ELSE LET pane_info == Head(panes)
             pane_id == PaneId(pane_info)
         IN InsertPanes(
                insert(names, pane_id, pane_info.title),
                IF pane_info.terminal_command # None
                    THEN insert(commands, pane_id, pane_info.terminal_command[1])
                    ELSE commands,
                Tail(panes))

\* update_pane_info without the two clear() calls
update_pane_info_merging(names, commands, manifest) ==
    InsertPanes(names, commands, Descriptors(manifest))

\* update_pane_info clearing pane_names only
update_pane_info_keep_commands(names, commands, manifest) ==
    InsertPanes(EmptyMap, commands, Descriptors(manifest))

update_pane_info(names, commands, manifest) ==
    InsertPanes(EmptyMap, EmptyMap, Descriptors(manifest))

(***************************************************************************)
(* State::auto_capture_panes: the run_command calls it makes, in order.    *)
(***************************************************************************)
\* the loop body of auto_capture_panes without its is_plugin test
CapturePane_any_kind(names, pane_info) ==
    LET pane_id == <<"terminal_", pane_info.id>>
        pane_num == pane_info.id
        name == get(names, pane_id)
    IN <<dump_cmd(pane_num)>> \o
       (IF name # None /\ ~starts_with(SafeName(name[1]), Str_PanePrefix)
            THEN <<symlink_cmd(pane_num, SafeName(name[1]))>>
            ELSE <<>>)

\* the loop body formatting the symlink with name instead of safe_name
CapturePane_raw_name(names, pane_info) ==
    IF ~pane_info.is_plugin THEN
        LET pane_id == <<"terminal_", pane_info.id>>
            pane_num == pane_info.id
            name == get(names, pane_id)
        IN <<dump_cmd(pane_num)>> \o
           (IF name # None /\ ~starts_with(SafeName(name[1]), Str_PanePrefix)
                THEN <<symlink_cmd(pane_num, name[1])>>
                ELSE <<>>)
    ELSE <<>>

CapturePane(names, pane_info) ==
    IF ~pane_info.is_plugin THEN
        LET pane_id == <<"terminal_", pane_info.id>>
            pane_num == pane_info.id
            name == get(names, pane_id)
        IN <<dump_cmd(pane_num)>> \o
           (IF name # None /\ ~starts_with(SafeName(name[1]), Str_PanePrefix)
                THEN <<symlink_cmd(pane_num, SafeName(name[1]))>>
                ELSE <<>>)
    ELSE <<>>

RECURSIVE CapturePanes(_, _)
CapturePanes(names, panes) ==
    IF panes = <<>> THEN <<>>
    ELSE CapturePane(names, Head(panes)) \o CapturePanes(names, Tail(panes))

auto_capture_panes(names, manifest) ==
    CapturePanes(names, Descriptors(manifest))

(***************************************************************************)
(* State::capture_all_panes                                                *)
(***************************************************************************)
\* format!("{}x{} at ({},{})", columns, rows, x, y)
Coordinates(g) ==
    <<g.pane_columns, "x", g.pane_rows, " at (", g.pane_x, ",", g.pane_y, ")">>

PaneInfoExport(names, commands, pane_info) ==
    LET pane_id == PaneId(pane_info)
        name == get(names, pane_id)
    IN [pane_id |-> pane_id,
        name |-> IF name # None THEN name[1] ELSE <<>>,
        command |-> get(commands, pane_id),
        is_focused |-> pane_info.is_focused,
        is_floating |-> pane_info.is_floating,
        coordinates |-> Coordinates(pane_info.geometry)]

\* the metadata loop skipping plugin panes, as the capture loop does
all_panes_info_terminals_only(names, commands, manifest) ==
    LET panes == SelectSeq(Descriptors(manifest), LAMBDA d : ~d.is_plugin)
    IN [i \in DOMAIN panes |-> PaneInfoExport(names, commands, panes[i])]

all_panes_info(names, commands, manifest) ==
    LET panes == Descriptors(manifest)
    IN [i \in DOMAIN panes |-> PaneInfoExport(names, commands, panes[i])]

capture_all_panes(names, commands, manifest) ==
    LET ser == to_string_pretty(all_panes_info(names, commands, manifest))
    IN (IF ser.is_ok THEN <<meta_cmd(ser.json)>> ELSE <<>>)
       \o auto_capture_panes(names, manifest)

(***************************************************************************)
(* State::export_to_file.  `now` is the clock reading in seconds relative  *)
(* to the Unix epoch; duration_since fails for a reading before the epoch  *)
(* and unwrap_or_default then gives 0.                                     *)
(***************************************************************************)
ClockReadings == -1 .. MaxClock

Timestamp(now) == IF now < 0 THEN 0 ELSE now

PaneNamesExport(names, now) == [panes |-> names, timestamp |-> Timestamp(now)]

\* export_to_file that writes nothing for an empty mapping
export_to_file_unless_empty(names, now) ==
    LET ser == to_string_pretty(PaneNamesExport(names, now))
    IN IF ser.is_ok /\ names # EmptyMap THEN <<write_cmd(ser.json)>> ELSE <<>>

export_to_file(names, now) ==
    LET ser == to_string_pretty(PaneNamesExport(names, now))
    IN IF ser.is_ok THEN <<write_cmd(ser.json)>> ELSE <<>>

(***************************************************************************)
(* ZellijPlugin::render: the lines that depend on the state, "Tracking {}  *)
(* panes" and one line per entry of pane_names in the order of the         *)
(* BTreeMap (the fixed banner lines are left out).                         *)
(***************************************************************************)
\* String order of the keys: "plugin_..." before "terminal_...", and, for the
\* one-digit indices of PaneInfos, the order of the indices
KeyBefore(a, b) ==
    \/ a[1] = "plugin_" /\ b[1] = "terminal_"
    \/ a[1] = b[1] /\ a[2] < b[2]

RECURSIVE InOrder(_)
InOrder(keys) ==
    IF keys = {} THEN <<>>
    ELSE LET first == CHOOSE k \in keys : \A o \in keys \ {k} : KeyBefore(k, o)
         IN <<first>> \o InOrder(keys \ {first})

render(names, commands) ==
    LET keys == InOrder(DOMAIN names)
    IN <<[tracking |-> Len(keys)]>> \o
       [i \in DOMAIN keys |->
            [pane_id |-> keys[i],
             name |-> names[keys[i]],
             cmd |-> IF keys[i] \in DOMAIN commands
                        THEN commands[keys[i]] ELSE "shell"]]

(***************************************************************************)
(* The state machine.                                                      *)
(*                                                                         *)
(* `received` is the manifest of the latest Event::PaneUpdate the host     *)
(* delivered, and event.repeat tells whether that manifest had the         *)
(* contents of the one delivered before it ("same": also the same          *)
(* iteration order, "reordered": another one).  Both record the input; the *)
(* plugin does not read them.                                              *)
(***************************************************************************)
KeyC == <<"Char", "c">>
Keys == {KeyC, <<"Char", "x">>}
NoKey == <<"", "">>

OtherEvents == {"ModeUpdate"}

SanIdle == [name |-> <<>>, safe_name |-> <<>>, done |-> FALSE]

\* nothing handed to the host yet, /tmp/zj-pane-names.json not written
ExecutorIdle ==
    [pending |-> {}, snapshot_file |-> None, handled |-> 0, lost |-> FALSE]

Repeat(before, pane_manifest) ==
    IF before = None \/ PanesOf(before[1]) # PanesOf(pane_manifest) THEN "no"
    ELSE IF before[1] = pane_manifest THEN "same"
    ELSE "reordered"

\* State::default()
Init ==
    /\ pane_names = EmptyMap
    /\ pane_commands = EmptyMap
    /\ last_manifest = None
    /\ issued = <<>>
    /\ should_render = FALSE
    /\ event = [kind |-> "none", key |-> NoKey, repeat |-> "no"]
    /\ received = None
    /\ san = SanIdle
    /\ printed = <<>>
    /\ serde_fails = FALSE
    /\ executor = ExecutorIdle

\* the PaneUpdate arm running auto_capture_panes before export_to_file
PaneUpdate_capture_first(pane_manifest, now) ==
    LET new == update_pane_info(pane_names, pane_commands, pane_manifest)
    IN /\ pane_names' = new.pane_names
       /\ pane_commands' = new.pane_commands
       /\ issued' = auto_capture_panes(new.pane_names, pane_manifest)
                    \o export_to_file(new.pane_names, now)
       /\ last_manifest' = Some(pane_manifest)
       /\ should_render' = TRUE
       /\ event' = [kind |-> "PaneUpdate", key |-> NoKey,
                    repeat |-> Repeat(received, pane_manifest)]
       /\ received' = Some(pane_manifest)
       /\ printed' = <<>>
       /\ UNCHANGED <<san, serde_fails, executor>>

\* the PaneUpdate arm calling capture_all_panes where it calls
\* auto_capture_panes
PaneUpdate_full_capture(pane_manifest, now) ==
    LET new == update_pane_info(pane_names, pane_commands, pane_manifest)
    IN /\ pane_names' = new.pane_names
       /\ pane_commands' = new.pane_commands
       /\ issued' = export_to_file(new.pane_names, now)
                    \o capture_all_panes(new.pane_names, new.pane_commands,
                                         pane_manifest)
       /\ last_manifest' = Some(pane_manifest)
       /\ should_render' = TRUE
       /\ event' = [kind |-> "PaneUpdate", key |-> NoKey,
                    repeat |-> Repeat(received, pane_manifest)]
       /\ received' = Some(pane_manifest)
       /\ printed' = <<>>
       /\ UNCHANGED <<san, serde_fails, executor>>

\* the PaneUpdate arm returning as soon as the snapshot cannot be encoded
PaneUpdate_abort_on_encode_error(pane_manifest, now) ==
    LET new == update_pane_info(pane_names, pane_commands, pane_manifest)
    IN /\ pane_names' = new.pane_names
       /\ pane_commands' = new.pane_commands
       /\ issued' = IF serde_fails THEN <<>>
                    ELSE export_to_file(new.pane_names, now)
                         \o auto_capture_panes(new.pane_names, pane_manifest)
       /\ last_manifest' = IF serde_fails THEN last_manifest
                           ELSE Some(pane_manifest)
       /\ should_render' = TRUE
       /\ event' = [kind |-> "PaneUpdate", key |-> NoKey,
                    repeat |-> Repeat(received, pane_manifest)]
       /\ received' = Some(pane_manifest)
       /\ printed' = <<>>
       /\ UNCHANGED <<san, serde_fails, executor>>

\* the PaneUpdate arm retaining only the first manifest it gets
\* (Option::get_or_insert)
PaneUpdate_retain_first(pane_manifest, now) ==
    LET new == update_pane_info(pane_names, pane_commands, pane_manifest)
    IN /\ pane_names' = new.pane_names
       /\ pane_commands' = new.pane_commands
       /\ issued' = export_to_file(new.pane_names, now)
                    \o auto_capture_panes(new.pane_names, pane_manifest)
       /\ last_manifest' = IF last_manifest = None THEN Some(pane_manifest)
                           ELSE last_manifest
       /\ should_render' = TRUE
       /\ event' = [kind |-> "PaneUpdate", key |-> NoKey,
                    repeat |-> Repeat(received, pane_manifest)]
       /\ received' = Some(pane_manifest)
       /\ printed' = <<>>
       /\ UNCHANGED <<san, serde_fails, executor>>

\* update: Event::PaneUpdate(pane_manifest)
PaneUpdate(pane_manifest, now) ==
    LET new == update_pane_info(pane_names, pane_commands, pane_manifest)
    IN /\ pane_names' = new.pane_names
       /\ pane_commands' = new.pane_commands
       /\ issued' = export_to_file(new.pane_names, now)
                    \o auto_capture_panes(new.pane_names, pane_manifest)
       /\ last_manifest' = Some(pane_manifest)
       /\ should_render' = TRUE
       /\ event' = [kind |-> "PaneUpdate", key |-> NoKey,
                    repeat |-> Repeat(received, pane_manifest)]
       /\ received' = Some(pane_manifest)
       /\ printed' = <<>>
       /\ UNCHANGED <<san, serde_fails, executor>>

\* the Key arm capturing an empty manifest when none has been retained
KeyEvent_default_manifest(key) ==
    /\ issued' = IF key = KeyC
                    THEN capture_all_panes(pane_names, pane_commands,
                            IF last_manifest # None THEN last_manifest[1] ELSE <<>>)
                    ELSE <<>>
    /\ should_render' = FALSE
    /\ event' = [kind |-> "Key", key |-> key, repeat |-> "no"]
    /\ printed' = <<>>
    /\ UNCHANGED <<pane_names, pane_commands, last_manifest, received, san,
                   serde_fails, executor>>

\* the Key arm moving the manifest out of last_manifest (Option::take)
KeyEvent_taking_manifest(key) ==
    /\ issued' = IF key = KeyC /\ last_manifest # None
                    THEN capture_all_panes(pane_names, pane_commands,
                                           last_manifest[1])
                    ELSE <<>>
    /\ last_manifest' = IF key = KeyC THEN None ELSE last_manifest
    /\ should_render' = FALSE
    /\ event' = [kind |-> "Key", key |-> key, repeat |-> "no"]
    /\ printed' = <<>>
    /\ UNCHANGED <<pane_names, pane_commands, received, san,
                   serde_fails, executor>>

\* the Key arm capturing on every Key::Char
KeyEvent_any_char(key) ==
    /\ issued' = IF key[1] = "Char" /\ last_manifest # None
                    THEN capture_all_panes(pane_names, pane_commands,
                                           last_manifest[1])
                    ELSE <<>>
    /\ should_render' = FALSE
    /\ event' = [kind |-> "Key", key |-> key, repeat |-> "no"]
    /\ printed' = <<>>
    /\ UNCHANGED <<pane_names, pane_commands, last_manifest, received, san,
                   serde_fails, executor>>

\* update: Event::Key(key)
KeyEvent(key) ==
    /\ issued' = IF key = KeyC /\ last_manifest # None
                    THEN capture_all_panes(pane_names, pane_commands,
                                           last_manifest[1])
                    ELSE <<>>
    /\ should_render' = FALSE
    /\ event' = [kind |-> "Key", key |-> key, repeat |-> "no"]
    /\ printed' = <<>>
    /\ UNCHANGED <<pane_names, pane_commands, last_manifest, received, san,
                   serde_fails, executor>>

\* update: _ => false
OtherEvent(e) ==
    /\ issued' = <<>>
    /\ should_render' = FALSE
    /\ event' = [kind |-> e, key |-> NoKey, repeat |-> "no"]
    /\ printed' = <<>>
    /\ UNCHANGED <<pane_names, pane_commands, last_manifest, received, san,
                   serde_fails, executor>>

\* render: the host may call it at any time; it prints and returns nothing
Render ==
    /\ printed' = render(pane_names, pane_commands)
    /\ issued' = <<>>
    /\ should_render' = FALSE
    /\ event' = [kind |-> "render", key |-> NoKey, repeat |-> "no"]
    /\ UNCHANGED <<pane_names, pane_commands, last_manifest, received, san,
                   serde_fails, executor>>

Next ==
    \/ \E pane_manifest \in Manifests, now \in ClockReadings :
            PaneUpdate(pane_manifest, now)
    \/ \E key \in Keys : KeyEvent(key)
    \/ \E e \in OtherEvents : OtherEvent(e)
    \/ Render

Spec == Init /\ [][Next]_vars

(***************************************************************************)
(* The plugin with an encoder that can fail: serde_json::to_string_pretty  *)
(* returns a Result, and export_to_file and capture_all_panes go on only   *)
(* `if let Ok(json)`.  EncoderFault makes the encoder fail, or work again, *)
(* between two events.                                                     *)
(***************************************************************************)
EncoderFault(fails) ==
    /\ serde_fails # fails
    /\ serde_fails' = fails
    /\ UNCHANGED <<pane_names, pane_commands, last_manifest, issued,
                   should_render, event, received, san, printed, executor>>

\* the manifests of one tab
OneTabManifests == {manifest \in Manifests : Len(manifest) <= 1}

FaultNext ==
    \/ \E pane_manifest \in OneTabManifests, now \in ClockReadings :
            PaneUpdate(pane_manifest, now)
    \/ \E key \in Keys : KeyEvent(key)
    \/ \E e \in OtherEvents : OtherEvent(e)
    \/ Render
    \/ \E fails \in BOOLEAN : EncoderFault(fails)

FaultSpec == Init /\ [][FaultNext]_vars

(***************************************************************************)
(* The plugin together with the executor behind run_command.  run_command  *)
(* hands a request over and returns; the executor runs the requests it     *)
(* holds one at a time in any order, a request may fail, and one that is   *)
(* never run stays pending.  A request is tagged with the notification     *)
(* that issued it and its place among that notification's requests.        *)
(* executor.lost says that some request failed.                            *)
(***************************************************************************)
\* one tab with at most one pane
ExecManifests ==
    {manifest \in OneTabManifests :
        \A i \in DOMAIN manifest :
            manifest[i].tab = 0 /\ Len(manifest[i].panes) <= 1}

Handed(no, requests) ==
    {[no |-> no, idx |-> i, cmd |-> requests[i]] : i \in DOMAIN requests}

\* the PaneUpdate arm taking a notification only when the executor is idle
ExecPaneUpdate_waiting(pane_manifest, now) ==
    LET new == update_pane_info(pane_names, pane_commands, pane_manifest)
        requests == export_to_file(new.pane_names, now)
                    \o auto_capture_panes(new.pane_names, pane_manifest)
    IN /\ executor.handled < MaxEvents
       /\ executor.pending = {}
       /\ pane_names' = new.pane_names
       /\ pane_commands' = new.pane_commands
       /\ issued' = requests
       /\ last_manifest' = Some(pane_manifest)
       /\ should_render' = TRUE
       /\ event' = [kind |-> "PaneUpdate", key |-> NoKey,
                    repeat |-> Repeat(received, pane_manifest)]
       /\ received' = Some(pane_manifest)
       /\ printed' = <<>>
       /\ executor' = [executor EXCEPT
                          !.handled = @ + 1,
                          !.pending = @ \cup Handed(executor.handled + 1, requests)]
       /\ UNCHANGED <<san, serde_fails>>

\* update: Event::PaneUpdate(pane_manifest), every run_command handing its
\* request to the executor
ExecPaneUpdate(pane_manifest, now) ==
    LET new == update_pane_info(pane_names, pane_commands, pane_manifest)
        requests == export_to_file(new.pane_names, now)
                    \o auto_capture_panes(new.pane_names, pane_manifest)
    IN /\ executor.handled < MaxEvents
       /\ pane_names' = new.pane_names
       /\ pane_commands' = new.pane_commands
       /\ issued' = requests
       /\ last_manifest' = Some(pane_manifest)
       /\ should_render' = TRUE
       /\ event' = [kind |-> "PaneUpdate", key |-> NoKey,
                    repeat |-> Repeat(received, pane_manifest)]
       /\ received' = Some(pane_manifest)
       /\ printed' = <<>>
       /\ executor' = [executor EXCEPT
                          !.handled = @ + 1,
                          !.pending = @ \cup Handed(executor.handled + 1, requests)]
       /\ UNCHANGED <<san, serde_fails>>

\* sh -c "echo '{json}' > /tmp/zj-pane-names.json" puts the document in the
\* file; the files of the other requests are not kept
ExecRun(r) ==
    /\ r \in executor.pending
    /\ executor' = [executor EXCEPT
                       !.pending = @ \ {r},
                       !.snapshot_file =
                            IF r.cmd.prog = "echo" /\ r.cmd.stdout = NamesJsonPath
                                THEN Some(r.cmd.arg) ELSE @]
    /\ UNCHANGED <<pane_names, pane_commands, last_manifest, issued,
                   should_render, event, received, san, printed, serde_fails>>

\* the request fails and leaves no file
ExecFail(r) ==
    /\ r \in executor.pending
    /\ executor' = [executor EXCEPT !.pending = @ \ {r}, !.lost = TRUE]
    /\ UNCHANGED <<pane_names, pane_commands, last_manifest, issued,
                   should_render, event, received, san, printed, serde_fails>>

ExecNext ==
    \/ \E pane_manifest \in ExecManifests, now \in ClockReadings :
            ExecPaneUpdate(pane_manifest, now)
    \/ \E r \in executor.pending : ExecRun(r)
    \/ \E r \in executor.pending : ExecFail(r)

ExecSpec == Init /\ [][ExecNext]_vars

(***************************************************************************)
(* The plugin of src/src/main.rs: the same State without last_manifest,    *)
(* the same update_pane_info, export_to_file writing with printf, and no   *)
(* capture; every event but PaneUpdate is ignored.                         *)
(***************************************************************************)
\* "printf '%s' \"{}\" > /tmp/zj-pane-names.json"
main_write_cmd(json) ==
    [prog |-> "printf '%s'", arg |-> json, stdout |-> NamesJsonPath]

main_export_to_file(names, now) ==
    LET ser == to_string_pretty(PaneNamesExport(names, now))
    IN IF ser.is_ok THEN <<main_write_cmd(ser.json)>> ELSE <<>>

MainPaneUpdate(pane_manifest, now) ==
    LET new == update_pane_info(pane_names, pane_commands, pane_manifest)
    IN /\ pane_names' = new.pane_names
       /\ pane_commands' = new.pane_commands
       /\ issued' = main_export_to_file(new.pane_names, now)
       /\ should_render' = TRUE
       /\ event' = [kind |-> "PaneUpdate", key |-> NoKey,
                    repeat |-> Repeat(received, pane_manifest)]
       /\ received' = Some(pane_manifest)
       /\ printed' = <<>>
       /\ UNCHANGED <<last_manifest, san, serde_fails, executor>>

MainOtherEvent(e) ==
    /\ issued' = <<>>
    /\ should_render' = FALSE
    /\ event' = [kind |-> e, key |-> NoKey, repeat |-> "no"]
    /\ printed' = <<>>
    /\ UNCHANGED <<pane_names, pane_commands, last_manifest, received, san,
                   serde_fails, executor>>

\* render of main.rs: "-" where lib.rs prints "shell"
main_render(names, commands) ==
    LET keys == InOrder(DOMAIN names)
    IN <<[tracking |-> Len(keys)]>> \o
       [i \in DOMAIN keys |->
            [pane_id |-> keys[i],
             name |-> names[keys[i]],
             cmd |-> IF keys[i] \in DOMAIN commands
                        THEN commands[keys[i]] ELSE "-"]]

MainRender ==
    /\ printed' = main_render(pane_names, pane_commands)
    /\ issued' = <<>>
    /\ should_render' = FALSE
    /\ event' = [kind |-> "render", key |-> NoKey, repeat |-> "no"]
    /\ UNCHANGED <<pane_names, pane_commands, last_manifest, received, san,
                   serde_fails, executor>>

MainNext ==
    \/ \E pane_manifest \in Manifests, now \in ClockReadings :
            MainPaneUpdate(pane_manifest, now)
    \/ \E e \in OtherEvents \cup {"Key"} : MainOtherEvent(e)
    \/ MainRender

MainSpec == Init /\ [][MainNext]_vars

(***************************************************************************)
(* The name sanitizer on its own: Init draws a title, Sanitize applies the *)
(* closure of auto_capture_panes to it.                                    *)
(***************************************************************************)
SanChars == {"a", "1", "é", "-", "_", " ", "/", "#", "."}

SanInputs ==
    UNION {[1..k -> SanChars] : k \in 0..MaxLen}
        \cup {Str_build, Str_PaneHash1, Str_PaneDash3, Str_MyPane1}

SanInit ==
    /\ pane_names = EmptyMap
    /\ pane_commands = EmptyMap
    /\ last_manifest = None
    /\ issued = <<>>
    /\ should_render = FALSE
    /\ event = [kind |-> "none", key |-> NoKey, repeat |-> "no"]
    /\ received = None
    /\ printed = <<>>
    /\ serde_fails = FALSE
    /\ executor = ExecutorIdle
    /\ \E name \in SanInputs :
            san = [name |-> name, safe_name |-> <<>>, done |-> FALSE]

Sanitize ==
    /\ ~san.done
    /\ san' = [san EXCEPT !.safe_name = SafeName(san.name), !.done = TRUE]
    /\ UNCHANGED <<pane_names, pane_commands, last_manifest, issued,
                   should_render, event, received, printed, serde_fails,
                   executor>>

SanNext == Sanitize

SanSpec == SanInit /\ [][SanNext]_vars

(***************************************************************************)
(* Vocabulary of the properties, read off the manifest and the requests    *)
(* themselves.                                                             *)
(***************************************************************************)
\* positions of the descriptors of a manifest: <<entry, index in its Vec>>
Positions(manifest) ==
    {<<i, j>> : i \in DOMAIN manifest, j \in 1..MaxPanes + 1} \cap
    UNION {{<<i, j>> : j \in DOMAIN manifest[i].panes} : i \in DOMAIN manifest}

At(manifest, p) == manifest[p[1]].panes[p[2]]

Ident(d) == <<IF d.is_plugin THEN "plugin_" ELSE "terminal_", d.id>>

IdsOf(manifest) == {Ident(At(manifest, p)) : p \in Positions(manifest)}

TerminalsAt(manifest, n) ==
    {p \in Positions(manifest) :
        ~At(manifest, p).is_plugin /\ At(manifest, p).id = n}

IsDump(r) == r.prog = "zellij action dump-pane"
IsSymlink(r) == r.prog = "ln -sf"
IsWrite(r) == r.prog \in {"echo", "printf '%s'"}

DumpsOf(n) ==
    {i \in DOMAIN issued :
        /\ IsDump(issued[i])
        /\ issued[i].pane = n
        /\ issued[i].stdout = <<"/tmp/zj-pane-", n, ".txt">>}

SymlinksTo(n) ==
    {i \in DOMAIN issued :
        IsSymlink(issued[i]) /\ issued[i].target = <<"/tmp/zj-pane-", n, ".txt">>}

\* the event handled last ran auto_capture_panes
AutoCaptureRan ==
    \/ event.kind = "PaneUpdate"
    \/ event.kind = "Key" /\ event.key = KeyC /\ received # None

\* the event handled last ran capture_all_panes
FullCaptureRan == event.kind = "Key" /\ event.key = KeyC /\ received # None

\* pane indices that occur in the manifest or in a request
Indices(manifest) ==
    {At(manifest, p).id : p \in Positions(manifest)}
        \cup {issued[i].pane : i \in {k \in DOMAIN issued : IsDump(issued[k])}}
        \cup {issued[i].target[2] : i \in {k \in DOMAIN issued : IsSymlink(issued[k])}}

(***************************************************************************)
(* C1: the keys of pane_names are exactly the identifiers of the           *)
(* descriptors of the manifest received last (none before the first        *)
(* manifest): no identifier is missing and none of an earlier manifest     *)
(* survives.                                                               *)
(***************************************************************************)
C1_NamesKeysAreManifestIds ==
    DOMAIN pane_names =
        (IF received = None THEN {} ELSE IdsOf(received[1]))

\* a manifest without terminal_7 has been reconciled (terminal_7 is in most
\* manifests that can have come before)
C1_Witness ==
    /\ event.kind = "PaneUpdate"
    /\ DOMAIN pane_names = {<<"plugin_", 7>>, <<"terminal_", 1>>}

(***************************************************************************)
(* C2: a symlink request is issued for a non-plugin pane only if its name  *)
(* in pane_names sanitizes to a non-empty token that does not begin with   *)
(* "Pane-".  (Violated: an empty title gets the link /tmp/zj-.txt.)        *)
(***************************************************************************)
C2_SymlinkOnlyForSafeName ==
    AutoCaptureRan =>
        \A i \in DOMAIN issued :
            IsSymlink(issued[i]) =>
                \E p \in Positions(received[1]) :
                    LET d == At(received[1], p)
                        token == SafeName(pane_names[<<"terminal_", d.id>>])
                    IN /\ ~d.is_plugin
                       /\ issued[i].target = <<"/tmp/zj-pane-", d.id, ".txt">>
                       /\ token # <<>>
                       /\ ~starts_with(token, Str_PanePrefix)

(***************************************************************************)
(* C3: one auto-capture pass issues exactly one dump request per           *)
(* non-plugin descriptor, for its index and to /tmp/zj-pane-<index>.txt,   *)
(* and no dump or symlink request for a plugin descriptor; a manifest of   *)
(* plugin panes only gives no dump and no symlink request.                 *)
(***************************************************************************)
C3_OneDumpPerTerminalPane ==
    AutoCaptureRan =>
        LET m == received[1]
        IN /\ \A i \in DOMAIN issued :
                IsDump(issued[i]) => i \in DumpsOf(issued[i].pane)
           /\ \A n \in Indices(m) :
                /\ Cardinality(DumpsOf(n)) = Cardinality(TerminalsAt(m, n))
                /\ Cardinality(SymlinksTo(n)) <= Cardinality(TerminalsAt(m, n))
           /\ (\A p \in Positions(m) : At(m, p).is_plugin) =>
                \A i \in DOMAIN issued : ~IsDump(issued[i]) /\ ~IsSymlink(issued[i])

\* a plugin pane and a terminal pane of the same index: one dump, for the
\* terminal pane
C3_Witness ==
    /\ event.kind = "PaneUpdate"
    /\ IdsOf(received[1]) = {<<"plugin_", 7>>, <<"terminal_", 7>>}
    /\ Cardinality(DumpsOf(7)) = 1
    /\ Cardinality({i \in DOMAIN issued : IsDump(issued[i])}) = 1

(***************************************************************************)
(* C4: for every non-plugin descriptor whose name in pane_names sanitizes  *)
(* to a non-empty token not beginning with "Pane-", one auto-capture pass  *)
(* issues exactly one symlink request, and it links /tmp/zj-<token>.txt to *)
(* the dump artifact /tmp/zj-pane-<index>.txt of the same index; one pane  *)
(* at index 7 titled "build" gives one dump for index 7 and one symlink    *)
(* /tmp/zj-build.txt -> /tmp/zj-pane-7.txt.                                *)
(***************************************************************************)
RuleChar(c) ==
    CASE c = " " \/ c = "/" -> "-"
      [] c \in Alphanumeric \cup {"-", "_"} -> c
      [] OTHER -> "_"

RuleToken(name) == [i \in DOMAIN name |-> RuleChar(name[i])]

HasSafeName(n) ==
    /\ <<"terminal_", n>> \in DOMAIN pane_names
    /\ RuleToken(pane_names[<<"terminal_", n>>]) # <<>>
    /\ ~starts_with(RuleToken(pane_names[<<"terminal_", n>>]), Str_PanePrefix)

OnlyPane7Build(manifest) ==
    /\ Cardinality(Positions(manifest)) = 1
    /\ \A p \in Positions(manifest) :
            /\ At(manifest, p).id = 7
            /\ ~At(manifest, p).is_plugin
            /\ At(manifest, p).title = Str_build

C4_OneSymlinkPerNamedPane ==
    AutoCaptureRan =>
        LET m == received[1]
        IN /\ \A n \in Indices(m) :
                (TerminalsAt(m, n) # {} /\ HasSafeName(n)) =>
                    /\ Cardinality(SymlinksTo(n)) = Cardinality(TerminalsAt(m, n))
                    /\ \A i \in SymlinksTo(n) :
                          issued[i].link =
                            <<"/tmp/zj-", RuleToken(pane_names[<<"terminal_", n>>]), ".txt">>
           /\ OnlyPane7Build(m) =>
                /\ Cardinality({i \in DOMAIN issued : IsDump(issued[i])}) = 1
                /\ Cardinality(DumpsOf(7)) = 1
                /\ Cardinality({i \in DOMAIN issued : IsSymlink(issued[i])}) = 1
                /\ \E i \in DOMAIN issued :
                      /\ IsSymlink(issued[i])
                      /\ issued[i].link = <<"/tmp/zj-", Str_build, ".txt">>
                      /\ issued[i].target = <<"/tmp/zj-pane-", 7, ".txt">>

C4_Witness ==
    /\ event.kind = "PaneUpdate"
    /\ OnlyPane7Build(received[1])
    /\ Len(issued) = 3
    /\ IsSymlink(issued[3])

(***************************************************************************)
(* C5: a capture key handled before any manifest was received issues no    *)
(* request and changes no state; handled after one, it runs full-capture   *)
(* on the manifest received last: its metadata entries are the descriptors *)
(* of that manifest, in order, and its dumps are for that manifest's       *)
(* terminal panes.                                                         *)
(***************************************************************************)
C5_CaptureKeyUsesLatestManifest ==
    [][ (event'.kind = "Key" /\ event'.key = KeyC) =>
            IF received = None
            THEN /\ issued' = <<>>
                 /\ UNCHANGED <<pane_names, pane_commands, last_manifest>>
            ELSE LET ds == Descriptors(received[1])
                 IN /\ issued' # <<>>
                    /\ issued'[1].stdout = <<"/tmp/zj-panes-info.json">>
                    /\ Len(issued'[1].arg) = Len(ds)
                    /\ \A i \in DOMAIN ds :
                          issued'[1].arg[i].pane_id = Ident(ds[i])
                    /\ {issued'[i].pane :
                            i \in {k \in DOMAIN issued' : IsDump(issued'[k])}}
                       = {ds[i].id : i \in {k \in DOMAIN ds : ~ds[k].is_plugin}}
      ]_vars

C5_Witness ==
    /\ event.kind = "Key" /\ event.key = KeyC
    /\ received # None
    /\ Len(Descriptors(received[1])) = 2
    /\ Len(issued) >= 3

(***************************************************************************)
(* C6 as stated: reconciling again with a manifest of identical contents   *)
(* gives identical pane_names and pane_commands, whatever order the tabs   *)
(* are iterated in.  (Violated: one identifier in two tabs.)               *)
(***************************************************************************)
SameContentsAgain ==
    /\ event'.kind = "PaneUpdate"
    /\ received # None
    /\ received' # None
    /\ PanesOf(received'[1]) = PanesOf(received[1])

C6_ReconcileIdempotent ==
    [][ SameContentsAgain =>
            pane_names' = pane_names /\ pane_commands' = pane_commands ]_vars

(***************************************************************************)
(* C6 amended: for every manifest in which no two descriptors of different *)
(* tabs have the same kind and index, reconciling again with a manifest of *)
(* identical contents gives identical pane_names and pane_commands,        *)
(* whatever order the tabs are iterated in.                                *)
(***************************************************************************)
NoIdInTwoTabs(manifest) ==
    \A p, q \in Positions(manifest) :
        (p[1] # q[1]) =>
            \/ At(manifest, p).is_plugin # At(manifest, q).is_plugin
            \/ At(manifest, p).id # At(manifest, q).id

C6_ReconcileIdempotentUniqueAcrossTabs ==
    [][ (SameContentsAgain /\ NoIdInTwoTabs(received'[1])) =>
            pane_names' = pane_names /\ pane_commands' = pane_commands ]_vars

\* the same two non-empty tabs were reconciled twice, iterated in the other
\* order the second time
C6_Witness ==
    /\ event.kind = "PaneUpdate"
    /\ event.repeat = "reordered"
    /\ NoIdInTwoTabs(received[1])
    /\ Cardinality(DOMAIN pane_names) = 2
    /\ \A i \in DOMAIN received[1] : received[1][i].panes # <<>>

(***************************************************************************)
(* C7: the sanitizer maps its input character by character: alphanumeric   *)
(* characters, '-' and '_' to themselves, ' ' and '/' to '-', every other  *)
(* character to '_'; the output has the length of the input and holds only *)
(* alphanumerics, '-' and '_'; "" gives "" and "My Pane/1" gives           *)
(* "My-Pane-1".                                                            *)
(***************************************************************************)
KeptChars == Alphanumeric \cup {"-", "_"}

C7_SanitizerRule ==
    san.done =>
        /\ Len(san.safe_name) = Len(san.name)
        /\ \A i \in DOMAIN san.name :
              /\ san.name[i] \in KeptChars => san.safe_name[i] = san.name[i]
              /\ san.name[i] \in {" ", "/"} => san.safe_name[i] = "-"
              /\ san.name[i] \notin KeptChars \cup {" ", "/"} =>
                    san.safe_name[i] = "_"
        /\ \A i \in DOMAIN san.safe_name : san.safe_name[i] \in KeptChars
        /\ san.name = Str_empty => san.safe_name = Str_empty
        /\ san.name = Str_MyPane1 => san.safe_name = Str_My_Pane_1

C7_Witness ==
    /\ san.done
    /\ san.name = Str_MyPane1
    /\ san.safe_name = Str_My_Pane_1

(***************************************************************************)
(* C8: every manifest-change notification issues exactly one write request *)
(* to /tmp/zj-pane-names.json, also for a manifest without panes, and the  *)
(* panes mapping of the written document maps every identifier of that     *)
(* manifest to the title of the last descriptor that has it; the timestamp *)
(* is not negative.                                                        *)
(***************************************************************************)
Before(p, q) == p[1] < q[1] \/ (p[1] = q[1] /\ p[2] <= q[2])

LastOf(manifest, id) ==
    LET ps == {p \in Positions(manifest) : Ident(At(manifest, p)) = id}
    IN At(manifest, CHOOSE p \in ps : \A q \in ps : Before(q, p))

SnapshotWrites ==
    {i \in DOMAIN issued :
        IsWrite(issued[i]) /\ issued[i].stdout = <<"/tmp/zj-pane-names.json">>}

C8_OneSnapshotPerManifest ==
    event.kind = "PaneUpdate" =>
        LET m == received[1]
        IN /\ Cardinality(SnapshotWrites) = 1
           /\ \A i \in SnapshotWrites :
                /\ DOMAIN issued[i].arg.panes = IdsOf(m)
                /\ \A id \in IdsOf(m) :
                      issued[i].arg.panes[id] = LastOf(m, id).title
                /\ issued[i].arg.timestamp >= 0
                /\ Positions(m) = {} => issued[i].arg.panes = <<>>

\* a manifest of two empty tabs still gives its one write, of an empty mapping
C8_Witness ==
    /\ event.kind = "PaneUpdate"
    /\ Len(received[1]) = 2
    /\ Positions(received[1]) = {}
    /\ Len(issued) = 1
    /\ SnapshotWrites = {1}
    /\ issued[1].arg.panes = <<>>

(***************************************************************************)
(* C9: full-capture issues exactly one write request to                    *)
(* /tmp/zj-panes-info.json, before anything else; its sequence has one     *)
(* entry per descriptor of the manifest, plugin panes included, with the   *)
(* descriptor's identifier and the name and command pane_names and         *)
(* pane_commands hold for it; the requests after it are the dumps and      *)
(* symlinks of auto-capture on the same manifest; a manifest without panes *)
(* gives the one write, of an empty sequence, and nothing else.            *)
(***************************************************************************)
MetadataWrites ==
    {i \in DOMAIN issued :
        IsWrite(issued[i]) /\ issued[i].stdout = <<"/tmp/zj-panes-info.json">>}

C9_FullCaptureMetadata ==
    FullCaptureRan =>
        LET m == received[1]
            ds == Descriptors(m)
        IN /\ MetadataWrites = {1}
           /\ Len(issued[1].arg) = Len(ds)
           /\ \A i \in DOMAIN ds :
                /\ issued[1].arg[i].pane_id = Ident(ds[i])
                /\ issued[1].arg[i].name = pane_names[Ident(ds[i])]
                /\ issued[1].arg[i].command =
                      (IF Ident(ds[i]) \in DOMAIN pane_commands
                          THEN <<pane_commands[Ident(ds[i])]>> ELSE <<>>)
           /\ \A i \in 2..Len(issued) : IsDump(issued[i]) \/ IsSymlink(issued[i])
           /\ \A n \in Indices(m) :
                Cardinality(DumpsOf(n)) = Cardinality(TerminalsAt(m, n))
           /\ ds = <<>> => Len(issued) = 1 /\ issued[1].arg = <<>>

C9_Witness ==
    /\ FullCaptureRan
    /\ IdsOf(received[1]) = {<<"plugin_", 7>>, <<"terminal_", 7>>}
    /\ Len(issued[1].arg) = 2
    /\ issued[1].arg[1].command # None

(***************************************************************************)
(* C10: every command handed to the executor redirects its errors to       *)
(* /dev/null and ends in "|| true".  (Violated: the two echo commands that *)
(* write the JSON documents do neither.)                                   *)
(***************************************************************************)
ErrorSuppressing(r) ==
    /\ "stderr" \in DOMAIN r
    /\ "or_true" \in DOMAIN r
    /\ r.stderr = "/dev/null"
    /\ r.or_true

C10_EveryCommandSuppressesErrors ==
    \A i \in DOMAIN issued : ErrorSuppressing(issued[i])

(***************************************************************************)
(* C11: a manifest notification rebuilds the store, then issues the        *)
(* snapshot write, then the dump and symlink requests of auto-capture, and *)
(* retains the manifest: the snapshot write is the first request and       *)
(* carries the rebuilt pane_names, every dump and symlink request comes    *)
(* after it, every symlink request comes right after the dump request of   *)
(* its pane, and the manifest is the one retained.                         *)
(***************************************************************************)
C11_OrderWithinNotification ==
    event.kind = "PaneUpdate" =>
        /\ DOMAIN pane_names = IdsOf(received[1])
        /\ SnapshotWrites = {1}
        /\ issued[1].arg.panes = pane_names
        /\ \A i \in DOMAIN issued :
              (IsDump(issued[i]) \/ IsSymlink(issued[i])) => i > 1
        /\ \A i \in DOMAIN issued :
              IsSymlink(issued[i]) =>
                  /\ IsDump(issued[i - 1])
                  /\ issued[i - 1].stdout = issued[i].target
        /\ last_manifest = received

\* two named terminal panes: the write, then dump and symlink of the one,
\* then dump and symlink of the other
C11_Witness ==
    /\ event.kind = "PaneUpdate"
    /\ Len(issued) = 5
    /\ IsSymlink(issued[3])
    /\ IsSymlink(issued[5])

(***************************************************************************)
(* C12 as stated: when two descriptors of a manifest have the same kind    *)
(* and index, pane_names and pane_commands both reflect the descriptor     *)
(* iterated last: its title, and its command or the absence of one.        *)
(* (Violated: a last descriptor without a command leaves the command of an *)
(* earlier descriptor in pane_commands.)                                   *)
(***************************************************************************)
C12_LastDescriptorWins ==
    event.kind = "PaneUpdate" =>
        \A id \in IdsOf(received[1]) :
            LET d == LastOf(received[1], id)
            IN /\ pane_names[id] = d.title
               /\ IF d.terminal_command = <<>>
                     THEN id \notin DOMAIN pane_commands
                     ELSE /\ id \in DOMAIN pane_commands
                          /\ pane_commands[id] = d.terminal_command[1]

\* the descriptors of a manifest that have the identifier and report a command
WithCommand(manifest, id) ==
    {p \in Positions(manifest) :
        /\ Ident(At(manifest, p)) = id
        /\ At(manifest, p).terminal_command # <<>>}

(***************************************************************************)
(* C12: when two descriptors of a manifest have the same kind and index,   *)
(* each map is resolved by last write wins on its own: pane_names has the  *)
(* title of the descriptor iterated last, pane_commands the command of the *)
(* last descriptor that reports one, and no entry only if none reports     *)
(* one.                                                                    *)
(***************************************************************************)
C12_LastWriteWinsPerMap ==
    event.kind = "PaneUpdate" =>
        \A id \in IdsOf(received[1]) :
            LET m == received[1]
                ps == WithCommand(m, id)
            IN /\ pane_names[id] = LastOf(m, id).title
               /\ (id \in DOMAIN pane_commands) = (ps # {})
               /\ ps # {} =>
                    LET last == CHOOSE p \in ps : \A q \in ps : Before(q, p)
                    IN pane_commands[id] = At(m, last).terminal_command[1]

\* terminal_7 twice: first titled "build" and running vim, then titled
\* "Pane #1" and running nothing
C12_Witness ==
    /\ event.kind = "PaneUpdate"
    /\ Cardinality(Positions(received[1])) = 2
    /\ IdsOf(received[1]) = {<<"terminal_", 7>>}
    /\ pane_names[<<"terminal_", 7>>] = Str_PaneHash1
    /\ <<"terminal_", 7>> \in DOMAIN pane_commands

(***************************************************************************)
(* C13: pane_commands has an entry for an identifier exactly when a        *)
(* descriptor of the manifest received last has that identifier and        *)
(* reports a running command, and the entry is the command of such a       *)
(* descriptor; so its keys are keys of pane_names and no command of a pane *)
(* that is gone survives.                                                  *)
(***************************************************************************)
C13_CommandsOfLatestManifest ==
    LET m == IF received = <<>> THEN <<>> ELSE received[1]
    IN /\ DOMAIN pane_commands =
            {id \in IdsOf(m) : WithCommand(m, id) # {}}
       /\ \A id \in DOMAIN pane_commands :
            \E p \in WithCommand(m, id) :
                At(m, p).terminal_command = <<pane_commands[id]>>
       /\ DOMAIN pane_commands \subseteq DOMAIN pane_names

\* two panes, one of them running a command
C13_Witness ==
    /\ event.kind = "PaneUpdate"
    /\ DOMAIN pane_names = {<<"terminal_", 1>>, <<"terminal_", 7>>}
    /\ DOMAIN pane_commands = {<<"terminal_", 7>>}

(***************************************************************************)
(* C14: only the flattening of a manifest notification changes the store.  *)
(* A step that handles a key (the capture key included, with its metadata  *)
(* write and its auto-capture), another event or a render leaves           *)
(* pane_names, pane_commands and last_manifest as they were; and in a      *)
(* manifest notification the export and the auto-capture that follow the   *)
(* flattening leave its result in place: the names are those of the        *)
(* manifest.                                                               *)
(***************************************************************************)
C14_OnlyFlattenerChangesStore ==
    [][ /\ event'.kind # "PaneUpdate" =>
            UNCHANGED <<pane_names, pane_commands, last_manifest>>
        /\ event'.kind = "PaneUpdate" =>
            /\ DOMAIN pane_names' = IdsOf(received'[1])
            /\ \A id \in IdsOf(received'[1]) :
                    pane_names'[id] = LastOf(received'[1], id).title ]_vars

\* a full capture of a manifest with a named pane has been issued and the
\* store still has its entries
C14_Witness ==
    /\ FullCaptureRan
    /\ Len(issued) >= 3
    /\ pane_names # EmptyMap
    /\ pane_commands # EmptyMap
    /\ last_manifest # <<>>

(***************************************************************************)
(* C15: an event that is neither a manifest notification nor the capture   *)
(* key (another kind of event, or a key other than 'c') issues no request, *)
(* leaves pane_names, pane_commands and last_manifest as they were, and    *)
(* update returns false: no render is asked for.                           *)
(***************************************************************************)
Ignored(e) ==
    /\ e.kind \notin {"none", "PaneUpdate", "render"}
    /\ e.kind = "Key" => e.key # <<"Char", "c">>

C15_IgnoredEventsDoNothing ==
    [][ Ignored(event') =>
            /\ issued' = <<>>
            /\ should_render' = FALSE
            /\ UNCHANGED <<pane_names, pane_commands, last_manifest>> ]_vars

\* a key other than 'c' has been handled with a manifest retained
C15_Witness ==
    /\ event.kind = "Key"
    /\ event.key = <<"Char", "x">>
    /\ last_manifest # <<>>
    /\ pane_names # EmptyMap
    /\ issued = <<>>

(***************************************************************************)
(* C16: the write of /tmp/zj-panes-info.json is a request of the capture   *)
(* key only: whenever the requests of the event handled last hold a        *)
(* metadata write, that event is the key 'c'; the requests of a manifest   *)
(* notification hold none.                                                 *)
(***************************************************************************)
C16_MetadataOnlyOnCaptureKey ==
    /\ MetadataWrites # {} =>
            event.kind = "Key" /\ event.key = <<"Char", "c">>
    /\ event.kind = "PaneUpdate" =>
            \A i \in DOMAIN issued :
                \/ IsDump(issued[i])
                \/ IsSymlink(issued[i])
                \/ i \in SnapshotWrites

\* the same manifest notified again, with panes to capture, and no metadata
\* write among the requests
C16_Witness ==
    /\ event.kind = "PaneUpdate"
    /\ event.repeat = "same"
    /\ Len(issued) > 1
    /\ MetadataWrites = {}

(***************************************************************************)
(* C17: a failing encoder skips only the write it belongs to.  A manifest  *)
(* notification handled while the encoder fails issues no write, and still *)
(* rebuilds the names, issues one dump per terminal pane and retains the   *)
(* manifest; the capture key handled while the encoder fails issues no     *)
(* write, and still issues one dump per terminal pane of the retained      *)
(* manifest.  Requests are dumps and symlinks only (nothing is retried),   *)
(* and a notification handled once the encoder works again issues its one  *)
(* snapshot write (no error state is kept).                                *)
(***************************************************************************)
NoWrite(requests) ==
    \A i \in DOMAIN requests : IsDump(requests[i]) \/ IsSymlink(requests[i])

DumpPerTerminal(requests, manifest) ==
    \A n \in {At(manifest, p).id : p \in Positions(manifest)} :
        Cardinality({i \in DOMAIN requests :
                        IsDump(requests[i]) /\ requests[i].pane = n})
            = Cardinality(TerminalsAt(manifest, n))

C17_EncodeFailureSkipsOnlyTheWrite ==
    [][ /\ (serde_fails /\ serde_fails' /\ event'.kind = "PaneUpdate") =>
            /\ NoWrite(issued')
            /\ DOMAIN pane_names' = IdsOf(received'[1])
            /\ \A id \in IdsOf(received'[1]) :
                    pane_names'[id] = LastOf(received'[1], id).title
            /\ DumpPerTerminal(issued', received'[1])
            /\ last_manifest' = received'
        /\ (serde_fails /\ serde_fails' /\ last_manifest # <<>>
                /\ event'.kind = "Key" /\ event'.key = <<"Char", "c">>) =>
            /\ NoWrite(issued')
            /\ DumpPerTerminal(issued', last_manifest[1])
            /\ UNCHANGED <<pane_names, pane_commands, last_manifest>>
        /\ (~serde_fails /\ ~serde_fails' /\ event'.kind = "PaneUpdate") =>
            \E i \in DOMAIN issued' :
                /\ IsWrite(issued'[i])
                /\ issued'[i].stdout = <<"/tmp/zj-pane-names.json">>
                /\ NoWrite(SubSeq(issued', i + 1, Len(issued')))
                /\ NoWrite(SubSeq(issued', 1, i - 1)) ]_vars

\* a manifest with a terminal pane has been handled while the encoder
\* failed: dumps but no write, the manifest retained
C17_Witness ==
    /\ serde_fails
    /\ event.kind = "PaneUpdate"
    /\ issued # <<>>
    /\ NoWrite(issued)
    /\ last_manifest = received
    /\ pane_names # EmptyMap

(***************************************************************************)
(* C18: whenever a manifest is retained in last_manifest, pane_names and   *)
(* pane_commands are the flattening of that very manifest (its             *)
(* identifiers, the title written last for each, the command written last  *)
(* for each that has one); so the name and command of every entry of the   *)
(* metadata a full capture writes are those of the manifest it captures.   *)
(***************************************************************************)
CommandOf(manifest, id) ==
    LET ps == WithCommand(manifest, id)
    IN IF ps = {} THEN <<>>
       ELSE At(manifest, CHOOSE p \in ps : \A q \in ps : Before(q, p))
                .terminal_command

C18_StoreIsFlatteningOfRetained ==
    /\ last_manifest = <<>> => pane_names = EmptyMap /\ pane_commands = EmptyMap
    /\ last_manifest # <<>> =>
        LET m == last_manifest[1]
        IN /\ DOMAIN pane_names = IdsOf(m)
           /\ \A id \in IdsOf(m) : pane_names[id] = LastOf(m, id).title
           /\ DOMAIN pane_commands = {id \in IdsOf(m) : CommandOf(m, id) # <<>>}
           /\ \A id \in DOMAIN pane_commands :
                <<pane_commands[id]>> = CommandOf(m, id)
           /\ (event.kind = "Key" /\ event.key = <<"Char", "c">>) =>
                \A i \in MetadataWrites :
                    \A k \in DOMAIN issued[i].arg :
                        LET entry == issued[i].arg[k]
                        IN /\ entry.pane_id \in IdsOf(m)
                           /\ entry.name = LastOf(m, entry.pane_id).title
                           /\ entry.command = CommandOf(m, entry.pane_id)

\* a full capture of a retained manifest of two terminal panes
C18_Witness ==
    /\ event.kind = "Key"
    /\ MetadataWrites # {}
    /\ last_manifest # <<>>
    /\ IdsOf(last_manifest[1]) = {<<"terminal_", 1>>, <<"terminal_", 7>>}
    /\ DOMAIN pane_names = {<<"terminal_", 1>>, <<"terminal_", 7>>}

(***************************************************************************)
(* C19: handling a manifest notification never waits for the executor.     *)
(* Whatever requests are still pending, and whatever became of the earlier *)
(* ones, the next notification can be handled, for every manifest; and     *)
(* what it leaves is determined by its manifest alone: the names of the    *)
(* manifest, one snapshot write carrying them, one dump per terminal pane. *)
(***************************************************************************)
C19_NeverWaitsForExecutor ==
    /\ executor.handled < MaxEvents =>
            \A manifest \in ExecManifests : ENABLED ExecPaneUpdate(manifest, 0)
    /\ event.kind = "PaneUpdate" =>
            /\ DOMAIN pane_names = IdsOf(received[1])
            /\ \A id \in IdsOf(received[1]) :
                    pane_names[id] = LastOf(received[1], id).title
            /\ SnapshotWrites = {1}
            /\ issued[1].arg.panes = pane_names
            /\ DumpPerTerminal(issued, received[1])

\* the second notification has been handled with a request of the first
\* still pending and another one failed
C19_Witness ==
    /\ executor.handled = 2
    /\ executor.lost
    /\ \E r \in executor.pending : r.no = 1

(***************************************************************************)
(* C20: once every request handed to the executor has run (none pending,   *)
(* none failed), /tmp/zj-pane-names.json holds the names of the manifest   *)
(* notified last.  (Violated: the executor runs the snapshot write of the  *)
(* last notification before that of an earlier one.)                       *)
(***************************************************************************)
C20_SnapshotFileIsLatest ==
    (executor.handled > 0 /\ executor.pending = {} /\ ~executor.lost) =>
        /\ executor.snapshot_file # <<>>
        /\ DOMAIN executor.snapshot_file[1].panes = IdsOf(received[1])
        /\ \A id \in IdsOf(received[1]) :
                executor.snapshot_file[1].panes[id] = LastOf(received[1], id).title

====
